---- MODULE Spec2Model ----
(***************************************************************************)
(* SpotiTube: the Lavalink node pool (LavaLinkManager / LavaLink) and the  *)
(* conversion pipeline (SpotiTube.convert) with its Redis cache.           *)
(***************************************************************************)
EXTENDS Integers, Sequences, FiniteSets, TLC

(***************************************************************************)
(* Bounds of the model.                                                    *)
(***************************************************************************)
\* Lavalink objects ever constructed
MaxObjs == 2
\* distinct names a caller passes to addNode / delName
NumNames == 1
\* searches dispatched over the life of the pool
MaxSearches == 2
\* items of the longest playlist of the catalog
MaxN == 5
\* the largest finite limit a caller passes to convert
MaxLimit == 3
\* items the catalog returns in one page, whatever larger page size is asked for
PageCap == 2
\* distinct tracks of the catalog (a playlist repeats them in turn)
NumKeys == 2
\* the artists of a track
MaxArtists == 2

\* the page size getPlaylist asks for, and the most convert asks for
PageLimit == 100
\* the limit convert falls back on
DefaultLimit == 20

(***************************************************************************)
(* JavaScript values: null, or an object given by its set of               *)
(* <<key, value>> properties; a property whose value is Undefined reads    *)
(* like an absent one.                                                     *)
(***************************************************************************)
Undefined == <<"undefined", 0>>
JsNull == [t |-> "null", props |-> {}]
JsObj(props) == [t |-> "object", props |-> props]
\* every value here but null is truthy (a JSON text is a non-empty string)
Truthy(v) == v.t # "null"
\* JSON.stringify: a property whose value is undefined is left out
JSONstringify(v) ==
  [t |-> IF v.t = "object" THEN "json:object" ELSE "json:null",
   props |-> {p \in v.props : p[2] # Undefined}]
\* JSON.parse of a text JSON.stringify made
JSONparse(s) == IF s.t = "json:object" THEN JsObj(s.props) ELSE JsNull
\* a text that is no JSON, and JSON.parse of it: a SyntaxError
RawText == [t |-> "text", props |-> {}]
JSONparseThrows(s) == s.t = "text"
Get(v, k) == IF \E p \in v.props : p[1] = k
             THEN (CHOOSE p \in v.props : p[1] = k)[2]
             ELSE Undefined

\* node names: 0 is a missing name, 1..NumNames are given by the caller,
\* a negative name is one uuid() generated
NoName == 0
Names == 1..NumNames
NoError == "false"

VARIABLES
  objs,      \* the Lavalink objects constructed so far: [name, load, error, url, password]
  nodes,     \* LavaLinkManager.nodes: the Map, as its entries [name, obj] in insertion order
  inflight,  \* searches dispatched and not settled: [obj, stage, err]
  dispatched,\* how many searches went out so far
  ret,       \* the last call or callback that ran and what it gave: [op, kind, obj, val, outcome]
  options,   \* SpotiTube.options.redis, after the merge with the defaults
  redis,     \* SpotiTube.redis: TRUE for a client, FALSE for null
  cache,     \* the Redis store: key -> JSON text, or null for no entry
  pc,        \* where the convert call in progress stands
  args,      \* its arguments and what the url names: [type, n, shape, limit,
             \* failedLimit], and the limit as the caller gave it: given
  tracks,    \* convert's tracks: the playlist positions gathered
  next,      \* convert's next
  idx,       \* the position in tracks of the for loop
  songs,     \* convert's songs
  failed,    \* convert's failed
  result,    \* convert's result while setRedisCache is awaited
  listener,  \* whether the instance has a listener for its "error" event
  lastIndex, \* options.spotify.regex.lastIndex: 0, or 1 for the end of the last match
  pages,     \* the page requests of the convert call: [offset, limit]
  touched,   \* whether the convert call has asked the cache or the search endpoint anything
  returned   \* what the promise of the convert call settled to

poolVars == <<objs, nodes, inflight, dispatched>>
pipeVars == <<options, redis, cache, pc, args, tracks, next, idx, songs, failed, result,
              listener, lastIndex, pages, touched, returned>>
vars == <<objs, nodes, inflight, dispatched, ret, options, redis, cache, pc, args, tracks, next, idx, songs, failed, result,
          listener, lastIndex, pages, touched, returned>>

Ret(op, kind, obj, val, outcome) ==
  [op |-> op, kind |-> kind, obj |-> obj, val |-> val, outcome |-> outcome]

\* the promise of a convert call: not settled yet, resolved with null, or
\* rejected with an error
Pending ==
  [t |-> "pending", failed |-> <<>>, completed |-> <<>>, info |-> "none",
   limit |-> [inf |-> FALSE, n |-> 0],
   converted |-> [failed |-> 0, completed |-> 0, total |-> 0],
   time |-> FALSE, error |-> "none"]
ReturnedNull == [Pending EXCEPT !.t = "null"]
Rejected(err) == [Pending EXCEPT !.t = "rejected", !.error = err]

(***************************************************************************)
(* The answers a Lavalink endpoint gives to /loadtracks.                   *)
(***************************************************************************)
Track(n) == [info |-> {<<"uri", <<"yt", n>>>>, <<"title", <<"title", n>>>>}, track |-> <<"track", n>>]
LavaData ==
  { [error |-> TRUE,  hasTracks |-> FALSE, tracks |-> <<>>],
    [error |-> FALSE, hasTracks |-> FALSE, tracks |-> <<>>],
    [error |-> FALSE, hasTracks |-> TRUE,  tracks |-> <<>>],
    [error |-> FALSE, hasTracks |-> TRUE,  tracks |-> <<Track(1)>>],
    [error |-> FALSE, hasTracks |-> TRUE,  tracks |-> <<Track(2), Track(3)>>] }

\* a faulty variant: the last track of the answer instead of the first
LastTrack(data) ==
  JsObj({p \in data.tracks[Len(data.tracks)].info : p[1] # "track"}
        \cup {<<"track", data.tracks[Len(data.tracks)].track>>})

\* {...data.tracks[0]?.info, track: data.tracks[0]?.track}
FirstTrack(data) ==
  JsObj({p \in data.tracks[1].info : p[1] # "track"} \cup {<<"track", data.tracks[1].track>>})

\* the value of the .then(data => ...) callback when it does not throw
SearchResult(data) ==
  IF ~data.hasTracks \/ Len(data.tracks) <= 0 THEN JsNull ELSE FirstTrack(data)

(***************************************************************************)
(* LavaLink                                                                *)
(***************************************************************************)
\* new Lavalink(node): the object, when the constructor does not throw
NewLavalink(name) ==
  [name |-> IF name # NoName THEN name ELSE -(Len(objs) + 1),
   load |-> 0, error |-> NoError, url |-> TRUE, password |-> TRUE]

\* this.load++
LoadInc(o) == [objs EXCEPT ![o].load = @ + 1]
\* this.load--
LoadDec(o) == [objs EXCEPT ![o].load = @ - 1]

RemoveAt(s, i) == SubSeq(s, 1, i - 1) \o SubSeq(s, i + 1, Len(s))

\* search(query): throws on a missing query, else load++ and the request goes out
Search(o, hasQuery) ==
  /\ o \in DOMAIN objs
  /\ dispatched < MaxSearches
  /\ IF ~hasQuery \/ ~objs[o].url \/ ~objs[o].password
     THEN /\ ret' = Ret("search", "throw", o, JsNull,
                        IF ~hasQuery THEN "Missing Search" ELSE "No password or url")
          /\ UNCHANGED <<objs, nodes, inflight, dispatched>>
     ELSE /\ objs' = LoadInc(o)
          /\ dispatched' = dispatched + 1
          /\ inflight' = Append(inflight, [obj |-> o, stage |-> "pending", err |-> NoError])
          /\ ret' = Ret("search", "promise", o, JsNull, "none")
          /\ UNCHANGED nodes
  /\ UNCHANGED pipeVars

\* fetch rejects, or res.json() throws: the .then(data => ...) callback is skipped
FetchReject(i) ==
  /\ i \in DOMAIN inflight
  /\ inflight[i].stage = "pending"
  /\ inflight' = [inflight EXCEPT ![i].stage = "rejected", ![i].err = "transport"]
  /\ ret' = Ret("fetch", "rejected", inflight[i].obj, JsNull, "transport")
  /\ UNCHANGED <<objs, nodes, dispatched>>
  /\ UNCHANGED pipeVars

\* .then(data => { this.load--; ... })
ThenHandler(i, data) ==
  /\ i \in DOMAIN inflight
  /\ inflight[i].stage = "pending"
  /\ objs' = LoadDec(inflight[i].obj)
  /\ IF data.error
     THEN /\ inflight' = [inflight EXCEPT ![i].stage = "rejected", ![i].err = "protocol"]
          /\ ret' = Ret("then", "throw", inflight[i].obj, JsNull, "protocol")
     ELSE /\ inflight' = RemoveAt(inflight, i)
          /\ ret' = Ret("search", "resolved", inflight[i].obj, SearchResult(data),
                        IF Truthy(SearchResult(data)) THEN "hit" ELSE "empty")
  /\ UNCHANGED <<nodes, dispatched>>
  /\ UNCHANGED pipeVars

\* a faulty variant: a catch handler that does not record the error
CatchHandlerNoFlag(i) ==
  /\ i \in DOMAIN inflight
  /\ inflight[i].stage = "rejected"
  /\ objs' = LoadDec(inflight[i].obj)
  /\ inflight' = RemoveAt(inflight, i)
  /\ ret' = Ret("search", "resolved", inflight[i].obj, JsNull, inflight[i].err)
  /\ UNCHANGED <<nodes, dispatched>>
  /\ UNCHANGED pipeVars

\* .catch(err => { this.load--; this.error = err; return null })
CatchHandler(i) ==
  /\ i \in DOMAIN inflight
  /\ inflight[i].stage = "rejected"
  /\ objs' = [LoadDec(inflight[i].obj) EXCEPT ![inflight[i].obj].error = inflight[i].err]
  /\ inflight' = RemoveAt(inflight, i)
  /\ ret' = Ret("search", "resolved", inflight[i].obj, JsNull, inflight[i].err)
  /\ UNCHANGED <<nodes, dispatched>>
  /\ UNCHANGED pipeVars

(***************************************************************************)
(* LavaLinkManager                                                         *)
(***************************************************************************)
HasName(name) == \E i \in DOMAIN nodes : nodes[i].name = name

\* a faulty variant: a set that adds an entry whatever the keys of the Map
MapSetAppends(name, o) == Append(nodes, [name |-> name, obj |-> o])

\* Map.prototype.set: an existing key keeps its place, a new key goes last
MapSet(name, o) ==
  IF HasName(name)
  THEN [i \in DOMAIN nodes |-> IF nodes[i].name = name THEN [name |-> name, obj |-> o]
                                                      ELSE nodes[i]]
  ELSE Append(nodes, [name |-> name, obj |-> o])

\* a faulty variant: a constructor that asks for the url alone
LavalinkThrowsOnUrl(hasUrl, hasPassword) == ~hasUrl

\* new Lavalink(node): if (!this.password || !this.url) throw new Error("No password or url")
LavalinkThrows(hasUrl, hasPassword) == ~hasPassword \/ ~hasUrl

\* addNode(node): the constructor throws on a missing url or password
AddNode(name, hasUrl, hasPassword) ==
  /\ Len(objs) < MaxObjs
  /\ IF LavalinkThrows(hasUrl, hasPassword)
     THEN /\ ret' = Ret("addNode", "throw", 0, JsNull, "No password or url")
          /\ UNCHANGED <<objs, nodes, inflight, dispatched>>
     ELSE /\ objs' = Append(objs, NewLavalink(name))
          /\ nodes' = MapSet(NewLavalink(name).name, Len(objs) + 1)
          /\ ret' = Ret("addNode", "ok", Len(objs) + 1, JsNull, "none")
          /\ UNCHANGED <<inflight, dispatched>>
  /\ UNCHANGED pipeVars

\* delName(name): this.nodes.delete(key) names an undeclared variable
DelName(name) ==
  /\ ret' = IF name = NoName THEN Ret("delName", "throw", 0, JsNull, "No Name Given")
            ELSE IF ~HasName(name) THEN Ret("delName", "ok", 0, JsNull, "false")
            ELSE Ret("delName", "throw", 0, JsNull, "ReferenceError")
  /\ UNCHANGED <<objs, nodes, inflight, dispatched>>
  /\ UNCHANGED pipeVars

\* [...this.nodes.values()].filter(g => !g.error)
Healthy == SelectSeq([i \in DOMAIN nodes |-> nodes[i].obj], LAMBDA o : objs[o].error = NoError)

\* a faulty variant: a sort that moves an element before its equals
RECURSIVE InsertByLoadUnstable(_, _)
InsertByLoadUnstable(s, o) ==
  IF s = <<>> THEN <<o>>
  ELSE IF objs[o].load - objs[s[Len(s)]].load <= 0
       THEN Append(InsertByLoadUnstable(SubSeq(s, 1, Len(s) - 1), o), s[Len(s)])
       ELSE Append(s, o)

\* Array.prototype.sort((a, b) => a.load - b.load): a stable sort
RECURSIVE InsertByLoad(_, _)
InsertByLoad(s, o) ==
  IF s = <<>> THEN <<o>>
  ELSE IF objs[o].load - objs[s[Len(s)]].load < 0
       THEN Append(InsertByLoad(SubSeq(s, 1, Len(s) - 1), o), s[Len(s)])
       ELSE Append(s, o)

RECURSIVE SortByLoad(_)
SortByLoad(s) ==
  IF s = <<>> THEN <<>>
  ELSE InsertByLoad(SortByLoad(SubSeq(s, 1, Len(s) - 1)), s[Len(s)])

\* a faulty variant: getBestNode without the filter on the error flag
BestNodeNoFilter ==
  IF Len(nodes) = 0 THEN 0
  ELSE Head(SortByLoad([i \in DOMAIN nodes |-> nodes[i].obj]))

\* getBestNode(): 0 stands for the thrown Error('No nodes existing')
BestNode ==
  IF Len(nodes) = 0 THEN 0
  ELSE IF SortByLoad(Healthy) = <<>> THEN 0
  ELSE Head(SortByLoad(Healthy))

\* a faulty variant: a selection that counts on the node it gives
GetBestNodeReserves ==
  /\ ret' = IF BestNode = 0 THEN Ret("getBestNode", "throw", 0, JsNull, "No nodes existing")
            ELSE Ret("getBestNode", "ok", BestNode, JsNull, "none")
  /\ objs' = IF BestNode = 0 THEN objs ELSE LoadInc(BestNode)
  /\ UNCHANGED <<nodes, inflight, dispatched>>
  /\ UNCHANGED pipeVars

\* getBestNode(): it filters and sorts a copy of the values of the Map
GetBestNode ==
  /\ ret' = IF BestNode = 0 THEN Ret("getBestNode", "throw", 0, JsNull, "No nodes existing")
            ELSE Ret("getBestNode", "ok", BestNode, JsNull, "none")
  /\ UNCHANGED <<objs, nodes, inflight, dispatched>>
  /\ UNCHANGED pipeVars

\* the port of the defaults of the constructor
DefaultPort == 6379
\* the defaults of options.redis: {host: null, password: null, post: 6379, db: null}
DefaultRedis == [host |-> FALSE, post |-> DefaultPort]

\* Util.mergeDefault(def, given): a key the caller gave keeps its value, a key
\* left out gets the default
MergeDefault(def, given) ==
  [k \in DOMAIN def \cup DOMAIN given |-> IF k \in DOMAIN given THEN given[k] ELSE def[k]]

\* constructor: this.redis is a client only when options.redis has host and port
RedisClient(opts) == opts.host /\ "port" \in DOMAIN opts /\ opts.port # 0

\* new LavaLinkManager() and new SpotiTube({..., redis: given})
Constructed(given) ==
  /\ objs = <<>>
  /\ nodes = <<>>
  /\ inflight = <<>>
  /\ dispatched = 0
  /\ ret = Ret("new", "ok", 0, JsNull, "none")
  /\ options = MergeDefault(DefaultRedis, given)
  /\ redis = RedisClient(options)
  /\ cache = [k \in 1..NumKeys |-> JsNull]
  /\ pc = "idle"
  /\ args = [type |-> "track", n |-> 0, shape |-> "clean", limit |-> [inf |-> FALSE, n |-> 0],
             failedLimit |-> TRUE, given |-> [inf |-> FALSE, n |-> 0]]
  /\ tracks = <<>>
  /\ next = FALSE
  /\ idx = 1
  /\ songs = <<>>
  /\ failed = <<>>
  /\ result = JsNull
  /\ listener = FALSE
  /\ lastIndex = 0
  /\ pages = <<>>
  /\ touched = FALSE
  /\ returned = Pending

NextPool ==
  \/ \E n \in Names \cup {NoName}, u \in BOOLEAN, p \in BOOLEAN : AddNode(n, u, p)
  \/ \E n \in Names \cup {NoName} : DelName(n)
  \/ GetBestNode
  \/ \E o \in 1..MaxObjs, q \in BOOLEAN : Search(o, q)
  \/ \E i \in 1..MaxSearches : FetchReject(i)
  \/ \E i \in 1..MaxSearches, d \in LavaData : ThenHandler(i, d)
  \/ \E i \in 1..MaxSearches : CatchHandler(i)

(***************************************************************************)
(* The catalog and the search endpoint, as SpotiTube.convert meets them.   *)
(***************************************************************************)
Min(a, b) == IF a <= b THEN a ELSE b

\* a limit argument: a number, Infinity, or none (undefined)
Lim(k) == [inf |-> FALSE, n |-> k]
Infinity == [inf |-> TRUE, n |-> 0]
NoLimit == [absent |-> TRUE]
LimitInputs == {Lim(k) : k \in -1..MaxLimit} \cup {Infinity, NoLimit}
\* length >= limit
AtLeast(length, limit) == ~limit.inf /\ length >= limit.n

\* the track of the catalog at position i of a playlist: 0 is a missing field.
\* A playlist "holes" has a track without uri at positions 2, 6, ... and a
\* null track at positions 4, 8, ...
Key(i) == ((i - 1) % NumKeys) + 1
\* the artists of the track of key k: MaxArtists of them when k is odd, none
\* when it is even
Artists(k) ==
  [j \in 1..(IF k % 2 = 1 THEN MaxArtists ELSE 0) |-> [name |-> <<"artist", k, j>>]]
Song(i, shape) ==
  IF shape = "holes" /\ i % 4 = 2
  THEN [uri |-> 0, ext |-> Key(i), name |-> Key(i), artists |-> Artists(Key(i))]
  ELSE IF shape = "holes" /\ i % 4 = 0
  THEN [uri |-> 0, ext |-> 0, name |-> 0, artists |-> <<>>]
  ELSE [uri |-> Key(i), ext |-> Key(i), name |-> Key(i), artists |-> Artists(Key(i))]

\* texts, as the sequences of their pieces: a name, or one space
Sp == <<" ">>
NameText(name) == <<<<"name", name>>>>

\* Array.prototype.join(sep) of an array of names
RECURSIVE Join(_, _)
Join(s, sep) ==
  IF s = <<>> THEN <<>>
  ELSE IF Len(s) = 1 THEN <<s[1]>>
  ELSE <<s[1], sep>> \o Join(Tail(s), sep)

\* a faulty variant: the artists in the reverse of their order
QueryTextReversed(song) ==
  NameText(song.name) \o <<Sp>>
    \o Join([j \in DOMAIN song.artists |-> song.artists[Len(song.artists) + 1 - j].name], Sp)

\* `${song.name} ${song.artists.map(x => x.name).join(' ')}`
QueryText(song) ==
  NameText(song.name) \o <<Sp>>
    \o Join([j \in DOMAIN song.artists |-> song.artists[j].name], Sp)

\* getPlaylistTracks(id, {offset, limit}): body.items (as positions) and body.next
PageItems(n, offset, limit) ==
  [j \in 1..Min(Min(limit, PageCap), n - offset) |-> offset + j]
PageNext(n, offset, limit) == offset + Len(PageItems(n, offset, limit)) < n

\* what /loadtracks answers to the query text q: the track it gives is marked
\* with the text asked; the last track of the catalog comes back without its
\* "track" field
AnswerKinds == {"error", "no tracks", "empty", "tracks"}
Answer(q, kind) ==
  [error |-> kind = "error", hasTracks |-> kind \in {"empty", "tracks"},
   tracks |-> IF kind # "tracks" THEN <<>>
              ELSE <<IF q[1] = <<"name", NumKeys>>
                     THEN [Track(q) EXCEPT !.track = Undefined] ELSE Track(q)>>]

(***************************************************************************)
(* SpotiTube                                                               *)
(***************************************************************************)
\* searchLavaLink(query): what its promise resolves to
LavaLinkResult(reject, data) ==
  IF reject \/ data.error THEN JsNull
  ELSE IF ~data.hasTracks \/ Len(data.tracks) <= 0 THEN JsNull
  ELSE JsObj({p \in data.tracks[1].info : p[1] # "track"} \cup {<<"track", data.tracks[1].track>>})

LavaLinkOutcome(reject, data) ==
  IF reject THEN "transport" ELSE IF data.error THEN "protocol"
  ELSE IF Truthy(LavaLinkResult(reject, data)) THEN "hit" ELSE "empty"

\* a faulty variant: a lookup that never finds the entry
getRedisCacheBlind(error, reply) == JsNull

\* getRedisCache(key): what the promise resolves to, given redis.get's (error, reply)
getRedisCache(error, reply) ==
  IF error THEN JsNull
  ELSE IF Truthy(reply)
       THEN IF JSONparseThrows(reply) THEN reply
            ELSE IF Truthy(JSONparse(reply)) THEN JSONparse(reply) ELSE reply
       ELSE JsNull

\* setRedisCache(key, data): if (!data) throw new Error("Needs Value")
setRedisCacheThrows(data) == ~Truthy(data)

\* the url argument: absent, a number, a text that is no Spotify url, the url
\* of an album, of a track, of a playlist
Urls == {"missing", "number", "text", "album", "track", "playlist"}

\* options.spotify.regex.test(url): the regex has the g flag, so it searches
\* from lastIndex li, leaves lastIndex at the end of the match it finds and at
\* 0 when it finds none; [found, lastIndex]
RegexTest(url, li) ==
  IF url \in {"track", "playlist"} /\ li = 0
  THEN [found |-> TRUE, lastIndex |-> 1]
  ELSE [found |-> FALSE, lastIndex |-> 0]

\* validateURL(url): the promise the async function returns, and the
\* lastIndex the call leaves
validateURL(url, li) ==
  IF url = "missing" THEN [state |-> "rejected", value |-> FALSE, lastIndex |-> li]
  ELSE IF url = "number" THEN [state |-> "fulfilled", value |-> FALSE, lastIndex |-> li]
  ELSE [state |-> "fulfilled", value |-> RegexTest(url, li).found,
        lastIndex |-> RegexTest(url, li).lastIndex]

\* the truthiness of a Promise: it is an object, whatever it settles to
PromiseTruthy(p) == p.state \in {"fulfilled", "rejected"}

\* this.emit("error", e) on an EventEmitter without a listener for "error" throws e
EmitErrorThrows == ~listener

\* convert(url, limit = 20, failedLimit = true): the default of the parameter
DefaultParam(limit) == IF limit = NoLimit THEN Lim(DefaultLimit) ELSE limit

\* a faulty variant: only a limit of 0 falls back to the default
NormLimitZeroOnly(limit) ==
  IF ~limit.inf /\ limit.n = 0 THEN Lim(DefaultLimit) ELSE limit

\* if (!limit || limit < 1) limit = 20
NormLimit(limit) ==
  IF ~limit.inf /\ (limit.n = 0 \/ limit.n < 1) THEN Lim(DefaultLimit) ELSE limit

\* a faulty variant: the whole page is gathered, whatever the limit
PushSongsUncapped(trks, items, limit) == trks \o items

\* for (const song of items) { if (tracks.length >= limit) break; else tracks.push(song) }
RECURSIVE PushSongs(_, _, _)
PushSongs(trks, items, limit) ==
  IF items = <<>> THEN trks
  ELSE IF AtLeast(Len(trks), limit) THEN trks
  ELSE PushSongs(Append(trks, Head(items)), Tail(items), limit)

\* song?.external_urls?.spotify || song?.uri || song?.name || "Unknown song"
FailedId(song) ==
  IF song.ext # 0 THEN [via |-> "external_urls", k |-> song.ext]
  ELSE IF song.uri # 0 THEN [via |-> "uri", k |-> song.uri]
  ELSE IF song.name # 0 THEN [via |-> "name", k |-> song.name]
  ELSE [via |-> "Unknown song", k |-> 0]

\* (failedLimit ? failed.length + songs.length : songs.length) >= limit
LimitReached ==
  AtLeast(IF args.failedLimit THEN Len(failed) + Len(songs) ELSE Len(songs), args.limit)

CurSong == Song(tracks[idx], args.shape)

\* a faulty variant: only a song without any field is set aside
NoIdentityNullOnly(song) == song.uri = 0 /\ song.ext = 0 /\ song.name = 0

\* !song?.uri || !song?.external_urls?.spotify
NoIdentity(song) == song.uri = 0 \/ song.ext = 0

\* a faulty variant: a failed search that is not recorded
PushFailedForgets(res, song) == failed

\* if (!result) failed.push(...)
PushFailed(res, song) == IF ~Truthy(res) THEN Append(failed, FailedId(song)) ELSE failed

\* a faulty variant: the newest song goes to the front
PushSongFront(res) ==
  IF Truthy(res) THEN <<[url |-> Get(res, "uri"), info |-> res]>> \o songs ELSE songs

\* else songs.push({url: result.uri, info: result})
PushSong(res) ==
  IF Truthy(res) THEN Append(songs, [url |-> Get(res, "uri"), info |-> res]) ELSE songs

\* a faulty variant: a song whose result is null is tried again
RecordedRetries(res) ==
  /\ failed' = failed
  /\ songs' = PushSong(res)
  /\ idx' = IF Truthy(res) THEN idx + 1 ELSE idx
  /\ pc' = "loop"
  /\ UNCHANGED returned

\* the end of one pass of the for loop: the result is recorded, the next song is up
Recorded(res) ==
  /\ failed' = PushFailed(res, CurSong)
  /\ songs' = PushSong(res)
  /\ idx' = idx + 1
  /\ pc' = "loop"
  /\ UNCHANGED returned

\* the catch of a pass, when emit("error", error) throws in it: convert rejects
Thrown(err) ==
  /\ pc' = "rejected"
  /\ returned' = Rejected(err)
  /\ UNCHANGED <<idx, songs, failed>>

\* getInfo of a track url: the track the catalog has for it
TrackInfo == Song(1, "clean")

\* getInfo?.external_urls?.spotify || getInfo.uri
TrackFailedId(info) ==
  IF info.ext # 0 THEN [via |-> "external_urls", k |-> info.ext]
  ELSE [via |-> "uri", k |-> info.uri]

\* the object the track branch returns
TrackReport(res) ==
  [t |-> "report",
   failed |-> IF ~Truthy(res) THEN <<TrackFailedId(TrackInfo)>> ELSE <<>>,
   completed |-> IF Truthy(res) THEN <<[url |-> Get(res, "uri"), info |-> res]>> ELSE <<>>,
   info |-> "track",
   limit |-> args.limit,
   converted |-> [failed |-> IF ~Truthy(res) THEN 1 ELSE 0,
                  completed |-> IF Truthy(res) THEN 1 ELSE 0,
                  total |-> 1],
   time |-> TRUE, error |-> "none"]

\* x || 0, for a number x
Or0(x) == IF x = 0 THEN 0 ELSE x

\* a faulty variant: a total that counts the completed songs only
ConvertedNoFailed(f, s) ==
  [failed |-> Or0(Len(f)), completed |-> Or0(Len(s)), total |-> Or0(Len(s))]

\* converted: {failed: failed?.length || 0, completed: songs?.length || 0,
\*             total: (failed?.length + songs?.length) || 0}
Converted(f, s) ==
  [failed |-> Or0(Len(f)), completed |-> Or0(Len(s)), total |-> Or0(Len(f) + Len(s))]

\* the object the playlist branch returns
PlaylistReport ==
  [t |-> "report", failed |-> failed, completed |-> songs, info |-> "playlist",
   limit |-> args.limit, converted |-> Converted(failed, songs),
   time |-> TRUE, error |-> "none"]

\* the calls that settle: convert returned a report or null, or threw
Settled == {"done", "null", "rejected"}

\* convert(url, limit, failedLimit) up to await this.initCreds()
Convert(url, n, shape, limit, failedLimit) ==
  /\ pc \in {"idle"} \cup Settled
  /\ args' = [type |-> url, n |-> n, shape |-> shape, limit |-> DefaultParam(limit),
              failedLimit |-> failedLimit, given |-> limit]
  /\ tracks' = <<>>
  /\ next' = FALSE
  /\ idx' = 1
  /\ songs' = <<>>
  /\ failed' = <<>>
  /\ result' = JsNull
  /\ pages' = <<>>
  /\ touched' = FALSE
  /\ IF url = "missing"
     THEN /\ pc' = "rejected"
          /\ returned' = Rejected("You did not specify the URL of Spotify!")
          /\ ret' = Ret("convert", "throw", 0, JsNull, url)
          /\ UNCHANGED lastIndex
     ELSE IF ~PromiseTruthy(validateURL(url, lastIndex))
     THEN /\ pc' = "rejected"
          /\ returned' = Rejected("Url is not a match to the regex!")
          /\ ret' = Ret("convert", "throw", 0, JsNull, url)
          /\ lastIndex' = validateURL(url, lastIndex).lastIndex
     ELSE /\ pc' = "initCreds"
          /\ returned' = Pending
          /\ ret' = Ret("convert", "await", 0, JsNull, url)
          /\ lastIndex' = validateURL(url, lastIndex).lastIndex
  /\ UNCHANGED <<options, redis, cache, listener>>
  /\ UNCHANGED poolVars

\* await this.initCreds(), the limit made sane, and the call of getInfo: when
\* the grant is refused, initCreds' catch emits the error
InitCreds(granted) ==
  /\ pc = "initCreds"
  /\ IF ~granted /\ EmitErrorThrows
     THEN /\ pc' = "rejected"
          /\ returned' = Rejected("clientCredentialsGrant")
          /\ UNCHANGED args
     ELSE /\ pc' = "getInfo"
          /\ args' = [args EXCEPT !.limit = NormLimit(@)]
          /\ UNCHANGED returned
  /\ ret' = Ret("initCreds", IF granted THEN "ok" ELSE "error", 0, JsNull, "none")
  /\ UNCHANGED <<options, redis, cache, tracks, next, idx, songs, failed, result,
                 listener, lastIndex, pages, touched>>
  /\ UNCHANGED poolVars

\* a faulty variant: albums pass for a supported type
SupportedTypesAlbum == {"playlist", "track", "album"}

\* this.supportedTypes = ['playlist', 'track']
SupportedTypes == {"playlist", "track"}

\* let getInfo = await this.getInfo(url), and the choice of the branch: getData
\* gives the data of the url, throws, or gives nothing
GetInfo(found) ==
  /\ pc = "getInfo"
  /\ lastIndex' = validateURL(args.type, lastIndex).lastIndex
  /\ IF found # "data" \/ args.type \in {"number", "text"}
     THEN IF EmitErrorThrows
          THEN /\ pc' = "rejected"
               /\ returned' = Rejected("getData")
          ELSE /\ pc' = "null"
               /\ returned' = ReturnedNull
     ELSE IF args.type \notin SupportedTypes
     THEN /\ pc' = "rejected"
          /\ returned' = Rejected("is not a support format")
     ELSE /\ pc' = IF args.type = "track" THEN "track" ELSE "getPlaylist"
          /\ UNCHANGED returned
  /\ ret' = Ret("getInfo", IF found # "data" \/ args.type \in {"number", "text"}
                           THEN "null" ELSE "data", 0, JsNull, found)
  /\ UNCHANGED <<options, redis, cache, args, tracks, next, idx, songs, failed, result,
                 listener, pages, touched>>
  /\ UNCHANGED poolVars

\* a faulty variant: the request is counted on the best node of the pool
FetchViaBestNode ==
  IF BestNode = 0 THEN UNCHANGED poolVars
  ELSE objs' = LoadInc(BestNode) /\ UNCHANGED <<nodes, inflight, dispatched>>

\* searchLavaLink(query): fetch(this.options.lavalink.url.href + 'loadtracks'),
\* the one endpoint of the options; no LavaLinkManager is asked for a node
FetchDirect == UNCHANGED poolVars

\* the track branch: one search, and the report
ConvertTrack(reject, kind) ==
  /\ pc = "track"
  /\ LET res == LavaLinkResult(reject, Answer(QueryText(TrackInfo), kind)) IN
       /\ IF ~Truthy(res) /\ EmitErrorThrows
          THEN /\ pc' = "rejected"
               /\ returned' = Rejected("TypeError")
          ELSE /\ pc' = "done"
               /\ returned' = TrackReport(res)
       /\ ret' = Ret("searchLavaLink", "resolved", 1, res,
                     LavaLinkOutcome(reject, Answer(QueryText(TrackInfo), kind)))
  /\ touched' = TRUE
  /\ UNCHANGED <<options, redis, cache, args, tracks, next, idx, songs, failed, result,
                 listener, lastIndex, pages>>
  /\ FetchDirect

\* what a page request can give: the body, an error, or no body
PageOutcomes == {"body", "error", "no body"}

\* a faulty variant: a failed page request passes for an answered one
PageFailedIgnored(outcome) == FALSE

\* getPlaylist rejects, or returns null and data.items throws
PageFailed(outcome) == outcome # "body"

\* a faulty variant: the songs are searched as soon as the first page is in
AfterPageEager(trks, nxt) == "loop"

\* while (next === true && (tracks.length < limit))
AfterPage(trks, nxt) ==
  IF nxt /\ ~AtLeast(Len(trks), args.limit) THEN "getPlaylistNext" ELSE "loop"

\* let data = await this.getPlaylist(getInfo.id), and the first filling of tracks
GetPlaylist(outcome) ==
  /\ pc = "getPlaylist"
  /\ pages' = Append(pages, [offset |-> 0, limit |-> PageLimit])
  /\ IF PageFailed(outcome)
     THEN /\ pc' = "rejected"
          /\ returned' = Rejected(outcome)
          /\ UNCHANGED <<tracks, next>>
     ELSE /\ tracks' = PushSongs(<<>>, PageItems(args.n, 0, PageLimit), args.limit)
          /\ next' = PageNext(args.n, 0, PageLimit)
          /\ pc' = AfterPage(tracks', next')
          /\ UNCHANGED returned
  /\ ret' = Ret("getPlaylist", outcome, 0, JsNull, "first")
  /\ UNCHANGED <<options, redis, cache, args, idx, songs, failed, result, listener, lastIndex, touched>>
  /\ UNCHANGED poolVars

\* a faulty variant: the offset of the page by its number
NextOffsetPaged == Len(pages) * PageLimit

\* offset: tracks.length
NextOffset == Len(tracks)

\* data.total - tracks.length >= 100 ? 100 : data.total - tracks.length
NextPageLimit == IF args.n - Len(tracks) >= PageLimit THEN PageLimit ELSE args.n - Len(tracks)

\* one pass of while (next === true && tracks.length < limit)
GetPlaylistNext(outcome) ==
  /\ pc = "getPlaylistNext"
  /\ pages' = Append(pages, [offset |-> NextOffset, limit |-> NextPageLimit])
  /\ IF PageFailed(outcome)
     THEN /\ pc' = "rejected"
          /\ returned' = Rejected(outcome)
          /\ UNCHANGED <<tracks, next>>
     ELSE /\ tracks' = PushSongs(tracks, PageItems(args.n, NextOffset, NextPageLimit), args.limit)
          /\ next' = IF AtLeast(Len(tracks'), args.limit) THEN FALSE
                     ELSE PageNext(args.n, NextOffset, NextPageLimit)
          /\ pc' = AfterPage(tracks', next')
          /\ UNCHANGED returned
  /\ ret' = Ret("getPlaylist", outcome, NextOffset, JsNull, "next")
  /\ UNCHANGED <<options, redis, cache, args, idx, songs, failed, result, listener, lastIndex, touched>>
  /\ UNCHANGED poolVars

\* the head of one pass of for (let song of tracks): the limit check, the
\* identity check, and the first request of the pass; after the last pass, the report
ForSong ==
  /\ pc = "loop"
  /\ IF idx > Len(tracks) \/ LimitReached
     THEN /\ pc' = "done"
          /\ returned' = PlaylistReport
          /\ ret' = Ret("convert", "resolved", 0, JsNull, "report")
          /\ UNCHANGED <<idx, failed>>
     ELSE IF NoIdentity(CurSong)
     THEN /\ failed' = Append(failed, FailedId(CurSong))
          /\ idx' = idx + 1
          /\ pc' = "loop"
          /\ ret' = Ret("convert", "failed", idx, JsNull, "identity")
          /\ UNCHANGED returned
     ELSE /\ pc' = IF redis THEN "getRedisCache" ELSE "searchLavaLink"
          /\ ret' = Ret("convert", "await", idx, JsNull, "song")
          /\ UNCHANGED <<idx, failed, returned>>
  /\ UNCHANGED <<options, redis, cache, args, tracks, next, songs, result,
                 listener, lastIndex, pages, touched>>
  /\ UNCHANGED poolVars

\* the reply of redis.get(key): what this instance stored under the key, or,
\* the store being shared, a text another client left under a key this
\* instance has not written (met here by the first song a run records)
Reply(foreign) == IF foreign THEN RawText ELSE cache[CurSong.uri]

\* let check = await this.getRedisCache(key): redis.get answers; when emit
\* throws in the callback of redis.get, the promise is never resolved
GetRedisCache(error, foreign) ==
  /\ pc = "getRedisCache"
  /\ foreign => (~error /\ cache[CurSong.uri] = JsNull /\ songs = <<>>)
  /\ IF error /\ EmitErrorThrows
     THEN /\ pc' = "crashed"
          /\ UNCHANGED <<idx, songs, failed, returned>>
     ELSE IF ~Truthy(getRedisCache(error, Reply(foreign)))
     THEN /\ pc' = "searchLavaLink"
          /\ UNCHANGED <<idx, songs, failed, returned>>
     ELSE Recorded(getRedisCache(error, Reply(foreign)))
  /\ ret' = Ret("getRedisCache", IF error THEN "error" ELSE IF foreign THEN "foreign" ELSE "reply", idx,
                getRedisCache(error, Reply(foreign)), "none")
  /\ touched' = TRUE
  /\ UNCHANGED <<options, redis, cache, args, tracks, next, result, listener, lastIndex, pages>>
  /\ UNCHANGED poolVars

\* result = await this.searchLavaLink(query): with Redis the write comes next,
\* unless setRedisCache throws; without Redis, result.uri throws on a null
\* result; the catch makes the result null and emits the error
SearchLavaLink(reject, kind) ==
  /\ pc = "searchLavaLink"
  /\ LET res == LavaLinkResult(reject, Answer(QueryText(CurSong), kind)) IN
       /\ IF redis /\ ~setRedisCacheThrows(res)
          THEN /\ result' = res
               /\ pc' = "setRedisCache"
               /\ UNCHANGED <<idx, songs, failed, returned>>
          ELSE /\ IF ~Truthy(IF redis THEN JsNull ELSE res) /\ EmitErrorThrows
                  THEN Thrown(IF redis THEN "Needs Value" ELSE "TypeError")
                  ELSE Recorded(IF redis THEN JsNull ELSE res)
               /\ UNCHANGED result
       /\ ret' = Ret("searchLavaLink", "resolved", idx, res,
                     LavaLinkOutcome(reject, Answer(QueryText(CurSong), kind)))
  /\ touched' = TRUE
  /\ UNCHANGED <<options, redis, cache, args, tracks, next, listener, lastIndex, pages>>
  /\ FetchDirect

\* await this.setRedisCache(key, result): redis.set answers; when emit throws
\* in the callback of redis.set, the promise is never resolved
SetRedisCache(error) ==
  /\ pc = "setRedisCache"
  /\ cache' = IF error THEN cache
              ELSE [cache EXCEPT ![CurSong.uri] = JSONstringify(result)]
  /\ IF error /\ EmitErrorThrows
     THEN /\ pc' = "crashed"
          /\ UNCHANGED <<idx, songs, failed, returned>>
     ELSE Recorded(result)
  /\ result' = JsNull
  /\ ret' = Ret("setRedisCache", IF error THEN "error" ELSE "ok", idx, result, "none")
  /\ UNCHANGED <<options, redis, args, tracks, next, listener, lastIndex, pages, touched>>
  /\ UNCHANGED poolVars

\* on("error", listener): the caller that listens does so before it converts
On ==
  /\ pc = "idle"
  /\ ~listener
  /\ listener' = TRUE
  /\ ret' = Ret("on", "ok", 0, JsNull, "error")
  /\ UNCHANGED <<options, redis, cache, pc, args, tracks, next, idx, songs, failed, result,
                 lastIndex, pages, touched, returned>>
  /\ UNCHANGED poolVars

NextPipe ==
  \/ \E n \in 0..MaxN, shape \in {"clean", "holes"}, limit \in LimitInputs, fl \in BOOLEAN :
       \* a limit that falls back to the default, far above MaxN, is tried
       \* on the short playlists only
       /\ NormLimit(DefaultParam(limit)) # limit => n <= 1
       /\ Convert("playlist", n, shape, limit, fl)
  \/ \E limit \in LimitInputs, fl \in BOOLEAN : Convert("track", 1, "clean", limit, fl)
  \/ \E url \in Urls \ {"track", "playlist"} : Convert(url, 0, "clean", Lim(0), TRUE)
  \/ \E granted \in BOOLEAN : InitCreds(granted)
  \/ \E found \in {"data", "error", "nothing"} : GetInfo(found)
  \/ \E reject \in BOOLEAN, kind \in AnswerKinds : ConvertTrack(reject, kind)
  \/ \E outcome \in PageOutcomes : GetPlaylist(outcome)
  \/ \E outcome \in PageOutcomes : GetPlaylistNext(outcome)
  \/ ForSong
  \/ \E error \in BOOLEAN, foreign \in BOOLEAN : GetRedisCache(error, foreign)
  \/ \E reject \in BOOLEAN, kind \in AnswerKinds : SearchLavaLink(reject, kind)
  \/ \E error \in BOOLEAN : SetRedisCache(error)
  \/ On

\* options without redis, and the redis options of a caller: those of the
\* README (host and "post"), a host with the port left to its default, and a
\* host with a port
NoRedis == [k \in {} |-> FALSE]
RedisOptions ==
  { [host |-> TRUE, post |-> DefaultPort],
    [host |-> TRUE],
    [host |-> TRUE, port |-> DefaultPort] }

\* the pool alone, beside an instance without Redis that converts nothing
InitPool == Constructed(NoRedis)
SpecPool == InitPool /\ [][NextPool]_vars

\* the pipeline alone, with and without Redis, beside an empty pool
InitPipe == \E given \in RedisOptions : Constructed(given)
SpecPipe == InitPipe /\ [][NextPipe]_vars

\* a pool with nodes beside an instance without Redis that converts a track
\* or a playlist of one page
NextBoth ==
  \/ \E n \in Names \cup {NoName} : AddNode(n, TRUE, TRUE)
  \/ GetBestNode
  \/ \E fl \in BOOLEAN : Convert("track", 1, "clean", Infinity, fl)
  \/ \E n \in 0..Min(MaxN, PageCap), shape \in {"clean", "holes"} :
       Convert("playlist", n, shape, Infinity, TRUE)
  \/ \E granted \in BOOLEAN : InitCreds(granted)
  \/ \E found \in {"data", "error", "nothing"} : GetInfo(found)
  \/ \E reject \in BOOLEAN, kind \in AnswerKinds : ConvertTrack(reject, kind)
  \/ \E outcome \in PageOutcomes : GetPlaylist(outcome)
  \/ ForSong
  \/ \E reject \in BOOLEAN, kind \in AnswerKinds : SearchLavaLink(reject, kind)
  \/ On

SpecBoth == InitPool /\ [][NextBoth]_vars

(***************************************************************************)
(* Properties of the pool.                                                 *)
(***************************************************************************)
Members == {nodes[i].obj : i \in DOMAIN nodes}
HealthyMembers == {o \in Members : objs[o].error = NoError}
PosOf(o) == CHOOSE i \in DOMAIN nodes : nodes[i].obj = o
Selected == ret.op = "getBestNode" /\ ret.kind = "ok"
Failures == {"transport", "protocol"}
OnObj(o) == {i \in DOMAIN inflight : inflight[i].obj = o}

\* C1: the node getBestNode returns is a member of the pool without an error
\* flag, no non-errored member has a smaller load, and every non-errored
\* member registered before it has a strictly larger load.
C1_BestIsFirstMinimalHealthy ==
  Selected =>
    /\ ret.obj \in HealthyMembers
    /\ \A o \in HealthyMembers : objs[ret.obj].load <= objs[o].load
    /\ \A o \in HealthyMembers :
         PosOf(o) < PosOf(ret.obj) => objs[o].load > objs[ret.obj].load

\* a selection among two non-errored members of equal load (the tie case)
C1_Witness ==
  /\ Selected
  /\ \E o \in HealthyMembers : o # ret.obj /\ objs[o].load = objs[ret.obj].load

\* C2: once no search of a node is in flight any more, its load is back at
\* the value it had before the searches were dispatched (0): every search
\* added one and took one away.
C2_LoadReturnsWhenSettled ==
  \A o \in DOMAIN objs : OnObj(o) = {} => objs[o].load = 0

\* C3: the load of every node is at least 0.
C3_LoadNonNegative ==
  \A o \in DOMAIN objs : objs[o].load >= 0

\* C4 (as claimed): a node whose search failed remains eligible, so a pool
\* whose only member has a failed search behind it still yields that member.
C4_FailedRemainsEligible ==
  (ret.op = "getBestNode" /\ Len(nodes) = 1 /\ objs[nodes[1].obj].error \in Failures)
    => (ret.kind = "ok" /\ ret.obj = nodes[1].obj)

\* C4 (amended): a search that ends in a transport or protocol failure sets
\* the node's error flag, the flag is never cleared, getBestNode never
\* returns a flagged node, and it throws when every member is flagged.
C4_FailedIsExcluded ==
  /\ [](/\ (ret.op = "search" /\ ret.kind = "resolved" /\ ret.outcome \in Failures)
             => objs[ret.obj].error = ret.outcome
        /\ Selected => objs[ret.obj].error = NoError
        /\ (ret.op = "getBestNode" /\ HealthyMembers = {}) => ret.kind = "throw")
  /\ [][\A o \in DOMAIN objs : objs[o].error # NoError => objs'[o].error # NoError]_vars

\* getBestNode threw on a pool whose every member has a failed search behind it
C4_Witness ==
  /\ ret.op = "getBestNode" /\ ret.kind = "throw"
  /\ Len(nodes) >= 1
  /\ \A o \in Members : objs[o].error \in Failures

\* C5: getBestNode throws exactly when the pool is empty or every member
\* carries an error flag; otherwise it returns a member of the pool.
C5_ThrowsIffNoneAvailable ==
  ret.op = "getBestNode" =>
    /\ ret.kind = "throw" <=> (Len(nodes) = 0 \/ \A i \in DOMAIN nodes : objs[nodes[i].obj].error # NoError)
    /\ ret.kind # "throw" => (ret.kind = "ok" /\ ret.obj \in Members)

\* a pool with an errored and a non-errored member: getBestNode returned a node
C5_Witness ==
  /\ Selected
  /\ \E o \in Members : objs[o].error # NoError

\* C6: search with a non-empty query never throws and its promise never
\* rejects; after a transport or protocol failure it resolves to null with the
\* error recorded on the node; after an answer without tracks it resolves to
\* null and after an answer with tracks to the first track, the error flag
\* being left as it was in both cases.
C6_SearchNeverPropagates ==
  [][ret'.op = "search" =>
       /\ ret'.kind = "throw" => (ret'.outcome = "Missing Search" /\ objs' = objs)
       /\ ret'.kind \in {"throw", "promise", "resolved"}
       /\ ret'.kind = "resolved" =>
            /\ ret'.outcome \in Failures \cup {"empty", "hit"}
            /\ ret'.outcome \in Failures =>
                 (ret'.val = JsNull /\ objs'[ret'.obj].error = ret'.outcome)
            /\ ret'.outcome = "empty" =>
                 (ret'.val = JsNull /\ objs'[ret'.obj].error = objs[ret'.obj].error)
            /\ ret'.outcome = "hit" =>
                 /\ \E d \in LavaData :
                      /\ d.hasTracks /\ Len(d.tracks) > 0
                      /\ ret'.val = JsObj(d.tracks[1].info \cup {<<"track", d.tracks[1].track>>})
                 /\ objs'[ret'.obj].error = objs[ret'.obj].error]_vars

\* a search that met a protocol error resolved to null
C6_Witness ==
  /\ ret.op = "search" /\ ret.kind = "resolved" /\ ret.outcome = "protocol"
  /\ ret.val = JsNull
  /\ objs[ret.obj].error = "protocol"

(***************************************************************************)
(* Properties of the pipeline.                                             *)
(***************************************************************************)
Resolving == pc \in {"getRedisCache", "searchLavaLink", "setRedisCache"}
Playlist == args.type = "playlist"
\* what a successful search for track k gives
HitFor(k) == LavaLinkResult(FALSE, Answer(QueryText(Song(k, "clean")), "tracks"))

C8_FailureNotMemoized ==
  /\ [](\A k \in DOMAIN cache : cache[k] # JsNull => cache[k].t = "json:object")
  /\ [][(pc = "searchLavaLink" /\ ret'.op = "searchLavaLink" /\ ~Truthy(ret'.val))
        => /\ cache' = cache
           /\ failed' = Append(failed, FailedId(CurSong))
           /\ songs' = songs
           /\ pc' = "loop"]_vars
  /\ [][(pc = "getRedisCache" /\ cache[CurSong.uri] = JsNull) => pc' = "searchLavaLink"]_vars

\* C9: with failedLimit = true a playlist run attempts a song only while
\* songs.length + failed.length is below the limit, and its report has
\* songs.length + failed.length = min(limit, number of items of the playlist).
C9_FailedLimitExaminesMin ==
  (Playlist /\ args.failedLimit) =>
    /\ Resolving => ~AtLeast(Len(songs) + Len(failed), args.limit)
    /\ pc = "done" =>
         Len(songs) + Len(failed) = IF args.limit.inf THEN args.n ELSE Min(args.limit.n, args.n)

\* limit 3, failedLimit, 5 items of which items 1 and 3 failed: 3 items examined
C9_Witness ==
  /\ pc = "done" /\ Playlist /\ args.failedLimit
  /\ args.n = 5 /\ args.limit = Lim(3)
  /\ failed = <<FailedId(Song(1, args.shape)), FailedId(Song(3, args.shape))>>
  /\ Len(songs) = 1

\* C10: with failedLimit = false a playlist run ends only with limit
\* successes or with every item of the playlist examined.
C10_ExaminesUntilLimitSuccesses ==
  (pc = "done" /\ Playlist /\ ~args.failedLimit) =>
    (AtLeast(Len(songs), args.limit) \/ Len(songs) + Len(failed) = args.n)

PageStages == {"getPlaylist", "getPlaylistNext"}
LoopStages == {"loop", "getRedisCache", "searchLavaLink", "setRedisCache"}
\* the items a run has to gather: min(limit, number of items)
Gathered == IF args.limit.inf THEN args.n ELSE Min(args.limit.n, args.n)
InvalidReference ==
  {"You did not specify the URL of Spotify!", "Url is not a match to the regex!"}

\* C11: every report convert returns, of a track or of a playlist, has
\* converted.total = completed.length + failed.length, converted.completed =
\* completed.length and converted.failed = failed.length.
C11_CountsMatchLists ==
  returned.t = "report" =>
    /\ returned.converted.total = Len(returned.completed) + Len(returned.failed)
    /\ returned.converted.completed = Len(returned.completed)
    /\ returned.converted.failed = Len(returned.failed)

\* the report of a playlist with songs on both lists
C11_Witness ==
  /\ returned.t = "report" /\ returned.info = "playlist"
  /\ Len(returned.completed) >= 1 /\ Len(returned.failed) >= 1

\* C12: once the search of a track url has been answered, convert has
\* returned a report with converted.total = 1 and the track on exactly one of
\* completed and failed.
C12_TrackAlwaysReports ==
  (args.type = "track" /\ touched) =>
    /\ returned.t = "report"
    /\ returned.converted.total = 1
    /\ Len(returned.completed) + Len(returned.failed) = 1

\* C13: a playlist run that has begun to resolve its songs is not aborted: it
\* does not end with an error or without an answer.
C13_ItemFailureNeverAborts ==
  (Playlist /\ touched) => pc \notin {"rejected", "crashed"}

\* C14: a call with a missing url, a url that is no string, or a string that
\* does not match the regex is rejected at once with the error of the
\* validation, before any request is made.
C14_InvalidReferenceRejected ==
  (pc # "idle" /\ args.type \in {"missing", "number", "text", "album"}) =>
    /\ pc = "rejected"
    /\ returned.error \in InvalidReference
    /\ pages = <<>> /\ ~touched

\* C15: a call that settles has returned a complete report or thrown an error.
C15_ReportOrError ==
  pc \in Settled =>
    \/ returned.t = "rejected"
    \/ returned.t = "report" /\ returned.time

\* C16: a page request that fails makes convert throw that error: no report,
\* and nothing was asked of the cache or of the search endpoint, neither
\* before the failure (pages are requested before any song is resolved) nor at it.
C16_PageFailureIsFatal ==
  /\ [](pc \in PageStages => (~touched /\ songs = <<>> /\ failed = <<>> /\ idx = 1))
  /\ [][(ret'.op = "getPlaylist" /\ ret'.kind # "body" /\ pc \in PageStages)
        => /\ pc' = "rejected"
           /\ returned' = Rejected(ret'.kind)
           /\ ~touched'
           /\ songs' = <<>> /\ failed' = <<>>
           /\ cache' = cache]_vars

\* the second page request of a run failed
C16_Witness ==
  /\ pc = "rejected" /\ returned.t = "rejected"
  /\ ret.op = "getPlaylist" /\ ret.kind = "error" /\ ret.outcome = "next"
  /\ Len(tracks) >= 1 /\ ~touched

\* C17: when the first song of a playlist is looked up or searched, the pages
\* are all in: the limit is reached or the catalog has no further page; no
\* page is requested, and tracks does not change, once the loop over the
\* songs has begun; and while pages are requested no song has been resolved.
C17_GatherThenResolve ==
  /\ []((Playlist /\ pc \in LoopStages)
          => (AtLeast(Len(tracks), args.limit) \/ ~next))
  /\ [](pc \in PageStages => ~touched)
  /\ [][(pc \in LoopStages) => (pages' = pages /\ tracks' = tracks)]_vars

\* pages of 2, a playlist of 3 and limit 3: both pages are in and the 3 songs
\* gathered when the first of them is resolved
C17_Witness ==
  /\ Playlist /\ Resolving /\ idx = 1
  /\ args.n = 3 /\ args.limit = Lim(3)
  /\ PageCap = 2 /\ Len(pages) = 2
  /\ tracks = <<1, 2, 3>>

\* C18: the songs gathered are the first min(limit, N) of the playlist in the
\* order of the catalog; the first page is requested at offset 0 and every
\* later one at offset tracks.length, with a page size of at most 100; and a
\* page is requested only while the limit is not reached and, after the first,
\* only when the catalog reported a further page.
C18_GathersFirstMin ==
  /\ []((Playlist /\ pc \in LoopStages \cup {"done"})
          => tracks = [i \in 1..Gathered |-> i])
  /\ [](\A j \in DOMAIN pages : pages[j].limit <= PageLimit /\ (j = 1 => pages[j].offset = 0))
  /\ [][(pages' # pages /\ pages' # <<>>)
        => /\ \E req \in {pages'[Len(pages')]} :
                /\ pages' = Append(pages, req)
                /\ req.offset = Len(tracks)
           /\ ~AtLeast(Len(tracks), args.limit)
           /\ pages # <<>> => next]_vars

\* limit 3 on a playlist of 5, pages of 2: the second page was requested at
\* offset 2 and 3 songs are gathered
C18_Witness ==
  /\ Playlist /\ pc = "loop"
  /\ args.n = 5 /\ args.limit = Lim(3)
  /\ Len(pages) = 2 /\ pages[2].offset = 2
  /\ tracks = <<1, 2, 3>>

\* C19: a playlist run over fewer items than the limit, once its pages are in
\* and its songs are being resolved, ends with a report whose
\* completed.length + failed.length is the number of items of the playlist.
C19_ExhaustionEndsInReport ==
  (Playlist /\ touched /\ ~AtLeast(args.n, args.limit)
     /\ pc \in Settled \cup {"crashed"})
    => /\ pc = "done" /\ returned.t = "report"
       /\ Len(returned.completed) + Len(returned.failed) = args.n

\* C20: the songs are resolved one at a time in the order of tracks: a song is
\* looked up or searched only when every song before it is on songs or on
\* failed, and a pass of the loop appends the song at idx to the end of
\* exactly one of the two lists and moves idx on by one.
C20_SequentialInOrder ==
  /\ []((Playlist /\ pc \in LoopStages) => Len(songs) + Len(failed) = idx - 1)
  /\ [][(pc \in LoopStages /\ (idx' # idx \/ songs' # songs \/ failed' # failed))
        => /\ idx' = idx + 1
           /\ \/ /\ failed' = Append(failed, FailedId(CurSong))
                 /\ songs' = songs
              \/ /\ failed' = failed
                 /\ Len(songs') = Len(songs) + 1
                 /\ songs' = Append(songs, songs'[Len(songs')])
                 /\ \/ /\ songs'[Len(songs')].url = <<"yt", QueryText(CurSong)>>
                       /\ Get(songs'[Len(songs')].info, "uri") = <<"yt", QueryText(CurSong)>>
                    \/ /\ ret'.kind = "foreign"
                       /\ songs'[Len(songs')] = [url |-> Undefined, info |-> RawText]]_vars

\* a report with the first two songs of the playlist completed, in their order,
\* and a later one failed
C20_Witness ==
  /\ Playlist /\ pc = "done"
  /\ Len(songs) = 2 /\ Len(failed) = 1
  /\ songs[1].url = <<"yt", QueryText(Song(1, "clean"))>>
  /\ songs[2].url = <<"yt", QueryText(Song(2, "clean"))>>

\* a song that has no uri or no external url
LacksIdentity(song) == song.uri = 0 \/ song.ext = 0

\* C21: a song of tracks without uri or without external url is put on failed
\* in the pass that meets it, under the id the report gives a failure, and the
\* loop moves on; nothing is asked of the cache or of the search endpoint for
\* it, the cache is not written, and it counts in songs.length + failed.length.
C21_NoIdentityFailsAtOnce ==
  /\ [](Resolving => ~LacksIdentity(CurSong))
  /\ [][(pc = "loop" /\ idx <= Len(tracks) /\ ~LimitReached /\ LacksIdentity(CurSong))
        => /\ failed' = Append(failed, FailedId(CurSong))
           /\ songs' = songs
           /\ Len(songs') + Len(failed') = Len(songs) + Len(failed) + 1
           /\ idx' = idx + 1
           /\ pc' = "loop"
           /\ cache' = cache /\ touched' = touched /\ result' = result
           /\ ret'.op = "convert"]_vars

\* the second song of a playlist has no uri: it is on failed under its external
\* url, after the first was resolved, and the third is up
C21_Witness ==
  /\ Playlist /\ pc = "loop" /\ idx = 3
  /\ ret.op = "convert" /\ ret.kind = "failed" /\ ret.outcome = "identity"
  /\ LacksIdentity(Song(tracks[2], args.shape))
  /\ failed # <<>> /\ failed[Len(failed)] = [via |-> "external_urls", k |-> Key(2)]
  /\ Len(songs) = 1

\* C22: the result of a search is written to the cache, and redis.set has
\* answered, before the song is recorded and the next song is up; whether the
\* write succeeded or failed, the song is then on songs with that result.
C22_WrittenThenRecorded ==
  /\ [](pc = "setRedisCache"
          => (Truthy(result) /\ Len(songs) + Len(failed) = idx - 1))
  /\ [][(pc = "setRedisCache")
        => /\ pc' = "loop"
           /\ idx' = idx + 1
           /\ songs' = Append(songs, [url |-> Get(result, "uri"), info |-> result])
           /\ failed' = failed
           /\ ret'.op = "setRedisCache"
           /\ ret'.kind = "ok" => cache'[CurSong.uri] = JSONstringify(result)]_vars

\* C23: a lookup that redis.get answers with an error, or with a text that
\* JSON.parse rejects, counts as a miss: the song is not recorded by the
\* lookup, the search for it comes next, and the run goes on. Stated for an
\* instance that has a listener for "error".
C23_ReadErrorIsMiss ==
  [][(listener /\ pc = "getRedisCache" /\ ret'.op = "getRedisCache"
        /\ ret'.kind \in {"error", "foreign"})
     => /\ pc' = "searchLavaLink"
        /\ songs' = songs /\ failed' = failed /\ idx' = idx]_vars

C25_DelNameReturnsWhetherRemoved ==
  [][\A name \in Names :
       DelName(name)
         => /\ ret'.kind = "ok"
            /\ ret'.outcome = (IF HasName(name) THEN "true" ELSE "false")
            /\ \A i \in DOMAIN nodes' : nodes'[i].name # name
            /\ ~HasName(name) => nodes' = nodes]_vars

C27_MissingUrlOrPasswordThrows ==
  /\ [](\A o \in DOMAIN objs : objs[o].url /\ objs[o].password)
  /\ [][\A name \in Names \cup {NoName}, hasUrl \in BOOLEAN, hasPassword \in BOOLEAN :
         (AddNode(name, hasUrl, hasPassword) /\ (~hasUrl \/ ~hasPassword))
           => /\ ret' = Ret("addNode", "throw", 0, JsNull, "No password or url")
              /\ nodes' = nodes
              /\ objs' = objs]_vars

\* an addNode threw beside a node that has a search in flight
C27_Witness ==
  /\ ret.op = "addNode" /\ ret.kind = "throw"
  /\ Len(nodes) = 1 /\ objs[nodes[1].obj].load = 1

\* the limit a call is to use, from the limit it was given
Normalized(given) ==
  IF given = NoLimit THEN Lim(DefaultLimit)
  ELSE IF given.inf THEN Infinity
  ELSE IF given.n < 1 THEN Lim(DefaultLimit)
  ELSE given

\* C28: once initCreds is through, the limit convert works with is 20 when no
\* limit, 0 or a limit below 1 was given, and the limit given when that is 1 or
\* more or Infinity; it stays so to the end of the call; and the report of a
\* track or of a playlist has that value as its limit.
C28_LimitNormalized ==
  /\ []((pc \in {"getInfo", "track", "done"} \cup PageStages \cup LoopStages)
          => args.limit = Normalized(args.given))
  /\ [](returned.t = "report" => returned.limit = Normalized(args.given))

\* the report of a playlist run that was given a negative limit has limit 20
C28_Witness ==
  /\ returned.t = "report" /\ Playlist /\ Len(returned.completed) = 1
  /\ args.given = Lim(-1) /\ returned.limit = Lim(DefaultLimit)

\* C29: when getInfo gives the data of a url whose type is neither track nor
\* playlist, convert throws "is not a support format" at once: no page is
\* requested, nothing is asked of the cache or of the search endpoint, and the
\* cache is as it was.
C29_UnsupportedTypeRejected ==
  /\ []((args.type = "album" /\ pc \notin {"idle", "initCreds", "getInfo"})
          => (pc \in {"rejected", "null"} /\ pages = <<>> /\ ~touched))
  /\ []((args.type = "album" /\ ret.op = "getInfo" /\ ret.kind = "data")
          => (pc = "rejected" /\ returned = Rejected("is not a support format")))
  /\ [][(pc = "getInfo" /\ args.type = "album" /\ ret'.op = "getInfo" /\ ret'.kind = "data")
        => /\ pc' = "rejected"
           /\ returned' = Rejected("is not a support format")
           /\ pages' = <<>> /\ ~touched'
           /\ cache' = cache
           /\ songs' = <<>> /\ failed' = <<>>]_vars

\* the url of an album, classified by getInfo, was rejected
C29_Witness ==
  /\ args.type = "album" /\ ret.op = "getInfo" /\ ret.kind = "data"
  /\ pc = "rejected" /\ returned = Rejected("is not a support format")

\* C30: an instance whose redis options name a host, and have the port as the
\* README gives it or not at all, has a Redis client, and a playlist run on it
\* looks every song it resolves up in the cache first.
C30_DocumentedRedisEnablesCache ==
  /\ []((options.host /\ options.post = DefaultPort) => redis)
  /\ [][(options.host /\ Playlist /\ pc = "loop" /\ pc' \in LoopStages \ {"loop"})
        => pc' = "getRedisCache"]_vars

\* the track or song a search is made for
Asked == IF pc = "track" THEN TrackInfo ELSE CurSong

\* C31 (as claimed): the text of every search, of a track url, of a song after
\* a cache miss and of a song without Redis, is the name and the names of the
\* artists in their order, all joined by single spaces.
C31_QueryJoinsNameAndArtists ==
  [][(ret'.op = "searchLavaLink" /\ Truthy(ret'.val))
     => Get(ret'.val, "uri") =
          <<"yt", Join(NameText(Asked.name)
                         \o [j \in DOMAIN Asked.artists |-> Asked.artists[j].name], Sp)>>]_vars

\* C31 (amended): the text of every search, on each of the three paths, is the
\* name, one space, and then the names of the artists in their order with one
\* space between two of them; without artists it is the name and one space.
C31_QueryIsNameSpaceArtists ==
  [][(ret'.op = "searchLavaLink" /\ Truthy(ret'.val))
     => \E q \in {Get(ret'.val, "uri")[2]} :
          /\ Get(ret'.val, "uri")[1] = "yt"
          /\ q[1] = <<"name", Asked.name>>
          /\ q[2] = Sp
          /\ Len(q) = IF Asked.artists = <<>> THEN 2 ELSE 2 * Len(Asked.artists) + 1
          /\ \A j \in DOMAIN Asked.artists :
               /\ q[2 * j + 1] = Asked.artists[j].name
               /\ j < Len(Asked.artists) => q[2 * j + 2] = Sp]_vars

\* with Redis, the search for a song without artists after a cache miss was
\* made with its name and a space
C31_Witness ==
  /\ Playlist /\ redis /\ pc = "setRedisCache"
  /\ ret.op = "searchLavaLink"
  /\ CurSong.artists = <<>>
  /\ Get(result, "uri") = <<"yt", <<<<"name", CurSong.name>>, Sp>>>>

\* C32: with Redis, the run of a track url looks the track up in the cache
\* before it searches, and a track it has reported as completed has its result
\* in the cache.
C32_TrackGoesThroughCache ==
  /\ [][(redis /\ pc = "track") => ret'.op = "getRedisCache"]_vars
  /\ []((redis /\ args.type = "track" /\ returned.t = "report"
           /\ returned.completed # <<>>)
          => cache[TrackInfo.uri] # JsNull)

\* C33: getBestNode changes neither the Map nor the load or the error of any
\* node, and a getBestNode that follows a getBestNode at once gives the same
\* node (or throws the same error).
C33_SelectionReservesNothing ==
  [][(ret'.op = "getBestNode")
     => /\ objs' = objs /\ nodes' = nodes
        /\ inflight' = inflight /\ dispatched' = dispatched
        /\ ret.op = "getBestNode" => ret' = ret]_vars

\* a node was selected while another node had a search in flight; the node
\* given has no load
C33_Witness ==
  /\ Selected
  /\ objs[ret.obj].load = 0
  /\ \E o \in Members : o # ret.obj /\ objs[o].load = 1 /\ OnObj(o) # {}

\* C34: a pass of the loop over the songs goes forward only: from the head of
\* the pass to the lookup (with Redis), from the lookup to the search or to the
\* next song, from the search to the write or to the next song, from the write
\* to the next song; so a song is looked up, searched and written at most
\* once, and never after a later song. Without Redis every song that has uri
\* and external url goes from the head of its pass to its one search, nothing
\* is asked of the cache, and the cache is never written. A run that returns
\* a report has passed every song it gathered.
C34_NoItemRetried ==
  /\ [][(Playlist /\ pc \in LoopStages /\ pc' \in LoopStages)
        => /\ pc = "loop" =>
                \/ pc' = "loop" /\ idx' = idx + 1 /\ LacksIdentity(CurSong)
                \/ pc' = (IF redis THEN "getRedisCache" ELSE "searchLavaLink") /\ idx' = idx
           /\ pc = "getRedisCache" =>
                /\ ret'.op = "getRedisCache"
                /\ \/ pc' = "searchLavaLink" /\ idx' = idx
                   \/ pc' = "loop" /\ idx' = idx + 1
           /\ pc = "searchLavaLink" =>
                /\ ret'.op = "searchLavaLink"
                /\ \/ pc' = "setRedisCache" /\ idx' = idx /\ redis
                   \/ pc' = "loop" /\ idx' = idx + 1
           /\ pc = "setRedisCache" =>
                /\ ret'.op = "setRedisCache"
                /\ pc' = "loop" /\ idx' = idx + 1]_vars
  /\ [][(ret'.op \in {"getRedisCache", "searchLavaLink", "setRedisCache"} /\ Playlist)
        => (Resolving /\ ret'.op = pc /\ ret'.obj = idx)]_vars
  /\ [][(~redis) => (cache' = cache /\ ret'.op \notin {"getRedisCache", "setRedisCache"})]_vars
  /\ []((Playlist /\ pc = "done") => idx = Len(tracks) + 1)

\* without Redis, the report of a playlist of 3 whose second song has no uri:
\* the two others were searched once each
C34_Witness ==
  /\ Playlist /\ ~redis /\ pc = "done"
  /\ args.n = 3 /\ args.shape = "holes" /\ Len(tracks) = 3
  /\ Len(failed) = 1 /\ Len(songs) = 2
  /\ cache = [k \in 1..NumKeys |-> JsNull]

\* the limit check of the loop, as it would come out with failedLimit = fl
LimitCheckWith(fl) ==
  AtLeast(IF fl THEN Len(failed) + Len(songs) ELSE Len(songs), args.limit)

C36_ValidateURLDeterministic ==
  \A url \in Urls \ {"missing"} :
     validateURL(url, lastIndex).value = validateURL(url, 0).value

====
